---- MODULE Spec2Model ----
(***************************************************************************)
(* Model of SessionWaiter (src/vmanager/vmanager.py): the polling loop     *)
(* that waits for vManager sessions, its rerun detection, its resolver     *)
(* policy and the status source it polls.                                  *)
(*                                                                         *)
(* One run of the model is one call of SessionWaiter.wait.  Time is the    *)
(* time since start_time, counted in whole units.  The loop                *)
(* is cut at its two blocking points: the sleep and the status request.    *)
(*   pc = "check"    top of the while loop (timeout check, then sleep)     *)
(*   pc = "fetch"    at client.get_session_status(sid) for session idx     *)
(*   pc = "process"  the request returned info; rest of the loop body      *)
(*   pc = "done"     wait has returned, or fail() has ended the process    *)
(***************************************************************************)
EXTENDS Integers, Sequences, FiniteSets, TLC

\* ---------------------------------------------------------------- bounds
MaxSessions == 2      \* tracked session ids are 1..n, n <= MaxSessions
MaxCount == 1         \* the running / waiting counts are 0..MaxCount
MaxTimeout == 1       \* cfg.session_timeout is 0..MaxTimeout
MaxPoll == 1          \* cfg.poll_interval is 1..MaxPoll
MaxFetchDelay == 1    \* a status request takes 0..MaxFetchDelay
MaxSnaps == 3         \* get_aggregated_stats is given 0..MaxSnaps snapshots
MaxRunCount == 1      \* the run counts of a snapshot are 0..MaxRunCount
MaxRuns == 3          \* generate_junit_xml is given 0..MaxRuns runs

\* The clock is only ever compared with cfg.session_timeout <= MaxTimeout, so
\* every time beyond MaxTimeout behaves alike: the clock saturates at Horizon.
Horizon == MaxTimeout + 1
\* mutant: the clock stands still
Advance_Stuck(t, d) == t

Advance(t, d) == IF t + d > Horizon THEN Horizon ELSE t + d

\* ---------------------------------------------------------------- values
Actions == {"fail", "continue", "ignore"}

\* session_status values the modelled status source reports
States == {"completed", "failed", "done", "running"}

\* the empty dict {} returned by get_session_status for a vanished session
EmptyInfo == [session_status |-> "", name |-> "", running |-> 0, waiting |-> 0]

\* the name the server reports for a session (fixed per session)
ServerName(sid) == <<"session", sid>>

\* non-empty snapshots of session sid, restricted to the fields wait() reads
Infos(sid) ==
  [session_status : States, name : {ServerName(sid)},
   running : 0..MaxCount, waiting : 0..MaxCount]

\* what urlopen / the server can answer to the /rest/sessions/list request
Responses(sid) ==
  [kind : {"list"}, item : Infos(sid)]
    \cup { [kind |-> k, item |-> EmptyInfo] :
             k \in {"empty_list", "not_list", "HTTPError", "URLError", "OtherError"} }

\* dict helpers: d.get(k) on a dict of booleans, and d[k] = v
Get(d, k) == IF k \in DOMAIN d THEN d[k] ELSE FALSE
Put(d, k, v) == [x \in DOMAIN d \cup {k} |-> IF x = k THEN v ELSE d[x]]

\* list.remove(x) for a list without duplicates
Remove(seq, x) == SelectSeq(seq, LAMBDA y : y # x)

Range(seq) == { seq[i] : i \in 1..Len(seq) }

\* ---------------------------------------------------------------- config
Configs ==
  [session_timeout : 0..MaxTimeout,
   poll_interval : 1..MaxPoll,
   inaccessible_resolver : {"fail"},
   stopped_resolver : {"fail"},
   failed_resolver : Actions,
   done_resolver : Actions,
   suspended_resolver : {"continue"}]

VARIABLES
  cfg,                  \* self.cfg
  session_ids,          \* self.session_ids
  remaining,            \* self.remaining
  session_names,        \* self.session_names
  completed_last_check, \* self.completed_last_check
  final_state,          \* self.final_state
  aggregated,           \* local aggregated of wait()
  now,                  \* time.time() - start_time
  pc,                   \* position in wait()
  idx,                  \* position of the for loop in session_ids
  info,                 \* local info of wait()
  outcome,              \* "none", "success", "failure" (return values), "timeout" (fail())
  age,                  \* history (SpecSweeps only): per session, sweeps begun since its
                        \* last recorded snapshot (0 this sweep, 1 the sweep before,
                        \* 2 older or never)
  call,                 \* SpecCalls only: the function called and its arguments
  ret                   \* SpecCalls only: what the call returned or raised

vars == <<cfg, session_ids, remaining, session_names, completed_last_check,
          final_state, aggregated, now, pc, idx, info, outcome, age, call, ret>>

EmptyDict == [x \in {} |-> FALSE]

\* no function call is being followed
NoCall == [fn |-> "none"]

Init ==
  /\ cfg \in Configs
  /\ \E n \in 1..MaxSessions : session_ids = [i \in 1..n |-> i]
  /\ remaining = session_ids
  /\ session_names = EmptyDict
  /\ completed_last_check = EmptyDict
  /\ final_state = EmptyDict
  /\ aggregated = EmptyDict
  /\ now = 0
  /\ pc = "check"
  /\ idx = 0
  /\ info = EmptyInfo
  /\ outcome = "none"
  /\ age = [s \in Range(session_ids) |-> 2]
  /\ call = NoCall
  /\ ret = NoCall

\* ------------------------------------------------------- status source
\* mutant: a URLError is swallowed and answered as an empty body
request_SwallowURLError(resp) ==
  CASE resp.kind = "HTTPError" -> [raises |-> "VAPIError", result |-> resp]
    [] resp.kind = "OtherError" -> [raises |-> "Exception", result |-> resp]
    [] OTHER -> [raises |-> "none", result |-> resp]

\* VAPIClient.request: the parsed answer, or the exception it raises.
\* HTTPError and URLError are both re-raised as VAPIError; anything else
\* urlopen / resp.read() raises is passed on unchanged.
request(resp) ==
  CASE resp.kind = "HTTPError" -> [raises |-> "VAPIError", result |-> resp]
    [] resp.kind = "URLError" -> [raises |-> "VAPIError", result |-> resp]
    [] resp.kind = "OtherError" -> [raises |-> "Exception", result |-> resp]
    [] OTHER -> [raises |-> "none", result |-> resp]

\* VAPIClient.get_session_status: result[0] of a non-empty list, else {}
get_session_status(resp) ==
  LET r == request(resp)
  IN  IF r.raises # "none" THEN [raises |-> r.raises, info |-> EmptyInfo]
      ELSE IF r.result.kind = "list" THEN [raises |-> "none", info |-> r.result.item]
      ELSE [raises |-> "none", info |-> EmptyInfo]

\* ------------------------------------------------------- SessionWaiter
\* mutant: a state without an entry resolves to continue
_get_resolver_DefaultContinue(c, state) ==
  CASE state = "inaccessible" -> c.inaccessible_resolver
    [] state = "stopped" -> c.stopped_resolver
    [] state = "failed" -> c.failed_resolver
    [] state = "done" -> c.done_resolver
    [] state = "suspended" -> c.suspended_resolver
    [] OTHER -> "continue"

_get_resolver(c, state) ==
  CASE state = "inaccessible" -> c.inaccessible_resolver
    [] state = "stopped" -> c.stopped_resolver
    [] state = "failed" -> c.failed_resolver
    [] state = "done" -> c.done_resolver
    [] state = "suspended" -> c.suspended_resolver
    [] state = "completed" -> "continue"
    [] OTHER -> "ignore"

\* mutant: the session is taken off the pending list whatever its flag
_check_all_done_AlwaysRemove(fs, rem, sid) ==
  [remaining |-> Remove(rem, sid), all_done |-> Len(Remove(rem, sid)) = 0]

\* mutant: a session whose flag is not set is put back on the pending list
_check_all_done_PutBack(fs, rem, sid) ==
  LET rem1 == IF Get(fs, sid) THEN Remove(rem, sid)
              ELSE IF sid \in Range(rem) THEN rem ELSE Append(rem, sid)
  IN  [remaining |-> rem1, all_done |-> Len(rem1) = 0]

\* mutant: the confirmed session is not taken off the pending list
_check_all_done_NoRemove(fs, rem, sid) ==
  [remaining |-> rem, all_done |-> Len(rem) = 0]

\* _check_all_done(sid) on the flags fs and the pending list rem:
\* the pending list it leaves and the value it returns
_check_all_done(fs, rem, sid) ==
  LET rem1 == IF Get(fs, sid) THEN Remove(rem, sid) ELSE rem
  IN  [remaining |-> rem1, all_done |-> Len(rem1) = 0]

\* mutant: the timeout fires already when elapsed equals the limit
TimedOut_Inclusive(c, elapsed) == c.session_timeout > 0 /\ elapsed >= c.session_timeout

\* mutant: a limit of 0 does not disable the timeout
TimedOut_NoDisable(c, elapsed) == elapsed > c.session_timeout

\* the timeout condition of the while loop
TimedOut(c, elapsed) == c.session_timeout > 0 /\ elapsed > c.session_timeout

\* mutant: a non-zero observation resets the provisional flag only
RerunCheck_KeepsConfirmed(clc, fs, sid, running, waiting) ==
  IF running = 0 /\ waiting = 0
  THEN IF Get(clc, sid)
       THEN [completed_last_check |-> clc, final_state |-> Put(fs, sid, TRUE)]
       ELSE [completed_last_check |-> Put(clc, sid, TRUE),
             final_state |-> Put(fs, sid, FALSE)]
  ELSE [completed_last_check |-> Put(clc, sid, FALSE),
        final_state |-> Put(fs, sid, Get(fs, sid))]

\* mutant: a non-zero observation does not reset the provisional flag
RerunCheck_NoReset(clc, fs, sid, running, waiting) ==
  IF running = 0 /\ waiting = 0
  THEN IF Get(clc, sid)
       THEN [completed_last_check |-> clc, final_state |-> Put(fs, sid, TRUE)]
       ELSE [completed_last_check |-> Put(clc, sid, TRUE),
             final_state |-> Put(fs, sid, FALSE)]
  ELSE [completed_last_check |-> Put(clc, sid, Get(clc, sid)),
        final_state |-> Put(fs, sid, FALSE)]

\* mutant: a single zero/zero observation confirms
RerunCheck_SinglePoll(clc, fs, sid, running, waiting) ==
  IF running = 0 /\ waiting = 0
  THEN [completed_last_check |-> Put(clc, sid, TRUE),
        final_state |-> Put(fs, sid, TRUE)]
  ELSE [completed_last_check |-> Put(clc, sid, FALSE),
        final_state |-> Put(fs, sid, FALSE)]

\* the rerun detection of wait(): the two flag maps after an observation
RerunCheck(clc, fs, sid, running, waiting) ==
  IF running = 0 /\ waiting = 0
  THEN IF Get(clc, sid)
       THEN [completed_last_check |-> clc, final_state |-> Put(fs, sid, TRUE)]
       ELSE [completed_last_check |-> Put(clc, sid, TRUE),
             final_state |-> Put(fs, sid, FALSE)]
  ELSE [completed_last_check |-> Put(clc, sid, FALSE),
        final_state |-> Put(fs, sid, FALSE)]

\* mutant: a confirmed failed session gets no special treatment
SpecialCase_Never(clc, sid, state, running, waiting) == FALSE

\* the 'failed' special case: taken when the observation is the second
\* consecutive zero/zero one and the state is failed
SpecialCase(clc, sid, state, running, waiting) ==
  running = 0 /\ waiting = 0 /\ Get(clc, sid) /\ state = "failed"

\* mutant: the ignore branch also checks completion, like continue
Decide_IgnoreChecksDone(c, clc, fs, rem, sid, state, running, waiting) ==
  LET special == SpecialCase(clc, sid, state, running, waiting)
      d0 == _check_all_done(fs, rem, sid)
      rem0 == IF special THEN d0.remaining ELSE rem
      d1 == _check_all_done(fs, rem0, sid)
      resolver == _get_resolver(c, state)
  IN  IF special /\ d0.all_done
      THEN [remaining |-> d0.remaining, build_failed |-> FALSE, build_success |-> TRUE]
      ELSE IF resolver = "fail" /\ state # "completed"
      THEN [remaining |-> rem0, build_failed |-> TRUE, build_success |-> FALSE]
      ELSE [remaining |-> d1.remaining, build_failed |-> FALSE,
            build_success |-> d1.all_done]

\* the decision of the loop body on a non-empty snapshot, from the flags fs
\* after the rerun detection: the pending list and build_failed / build_success
Decide(c, clc, fs, rem, sid, state, running, waiting) ==
  LET special == SpecialCase(clc, sid, state, running, waiting)
      d0 == _check_all_done(fs, rem, sid)
      rem0 == IF special THEN d0.remaining ELSE rem
      d1 == _check_all_done(fs, rem0, sid)
      resolver == _get_resolver(c, state)
  IN  IF special /\ d0.all_done
      THEN [remaining |-> d0.remaining, build_failed |-> FALSE, build_success |-> TRUE]
      ELSE IF state = "completed"
      THEN [remaining |-> d1.remaining, build_failed |-> FALSE,
            build_success |-> d1.all_done]
      ELSE IF resolver = "fail"
      THEN [remaining |-> rem0, build_failed |-> TRUE, build_success |-> FALSE]
      ELSE IF resolver = "continue"
      THEN [remaining |-> d1.remaining, build_failed |-> FALSE,
            build_success |-> d1.all_done]
      ELSE [remaining |-> rem0, build_failed |-> FALSE, build_success |-> FALSE]

\* the session the for loop is at
Sid == session_ids[idx]

\* mutant: the for loop steps over every second session
NextSession_SkipsOne ==
  IF idx + 1 < Len(session_ids)
  THEN pc' = "fetch" /\ idx' = idx + 2
  ELSE pc' = "check" /\ idx' = 0

\* the for loop moves to the next session, or the sweep ends
NextSession ==
  IF idx < Len(session_ids)
  THEN pc' = "fetch" /\ idx' = idx + 1
  ELSE pc' = "check" /\ idx' = 0

\* break without a decision: back to the top of the while loop
EndSweep == pc' = "check" /\ idx' = 0

\* fail(): sys.exit(1) out of the timeout check
Timeout ==
  /\ pc = "check"
  /\ TimedOut(cfg, now)
  /\ pc' = "done"
  /\ outcome' = "timeout"
  /\ UNCHANGED <<cfg, session_ids, remaining, session_names, completed_last_check,
                 final_state, aggregated, now, idx, info>>

\* the timeout check passes; time.sleep(poll_interval); the sweep starts
Sleep ==
  /\ pc = "check"
  /\ ~TimedOut(cfg, now)
  /\ now' = Advance(now, cfg.poll_interval)
  /\ pc' = "fetch"
  /\ idx' = 1
  /\ UNCHANGED <<cfg, session_ids, remaining, session_names, completed_last_check,
                 final_state, aggregated, info, outcome>>

\* client.get_session_status(sid) answers resp after d units of time
Fetch(resp, d) ==
  /\ pc = "fetch"
  /\ now' = Advance(now, d)
  /\ LET r == get_session_status(resp)
     IN  CASE r.raises = "VAPIError" -> NextSession /\ info' = info
           [] r.raises = "Exception" -> EndSweep /\ info' = info
           [] OTHER -> pc' = "process" /\ idx' = idx /\ info' = r.info
  /\ UNCHANGED <<cfg, session_ids, remaining, session_names, completed_last_check,
                 final_state, aggregated, outcome>>

FetchStatus ==
  /\ pc = "fetch"
  /\ \E resp \in Responses(Sid), d \in 0..MaxFetchDelay : Fetch(resp, d)

\* mutant: an empty snapshot drops the recorded entry of the session
Deleted_DropsEntry ==
  /\ pc = "process"
  /\ info = EmptyInfo
  /\ pc' = "done"
  /\ outcome' = "failure"
  /\ aggregated' = [x \in DOMAIN aggregated \ {Sid} |-> aggregated[x]]
  /\ UNCHANGED <<cfg, session_ids, remaining, session_names, completed_last_check,
                 final_state, now, idx, info>>

\* mutant: an empty snapshot is skipped like a failed fetch
Deleted_Skip ==
  /\ pc = "process"
  /\ info = EmptyInfo
  /\ NextSession
  /\ UNCHANGED <<cfg, session_ids, remaining, session_names, completed_last_check,
                 final_state, aggregated, now, info, outcome>>

\* 'if not info': the session was deleted upstream
Deleted ==
  /\ pc = "process"
  /\ info = EmptyInfo
  /\ pc' = "done"
  /\ outcome' = "failure"
  /\ UNCHANGED <<cfg, session_ids, remaining, session_names, completed_last_check,
                 final_state, aggregated, now, idx, info>>

\* the loop body on a non-empty snapshot, up to the returns after the for loop
\* (info is dead once the body ends without a decision, and is cleared)
Process ==
  /\ pc = "process"
  /\ info # EmptyInfo
  /\ LET state == info.session_status
         t == RerunCheck(completed_last_check, final_state, Sid, info.running, info.waiting)
         dec == Decide(cfg, completed_last_check, t.final_state, remaining, Sid,
                       state, info.running, info.waiting)
     IN  /\ session_names' = [x \in DOMAIN session_names \cup {Sid} |->
                                IF x = Sid THEN info.name ELSE session_names[x]]
         /\ aggregated' = [x \in DOMAIN aggregated \cup {Sid} |->
                             IF x = Sid THEN info ELSE aggregated[x]]
         /\ completed_last_check' = t.completed_last_check
         /\ final_state' = t.final_state
         /\ remaining' = dec.remaining
         /\ IF dec.build_failed
            THEN pc' = "done" /\ idx' = idx /\ outcome' = "failure" /\ info' = info
            ELSE IF dec.build_success
            THEN pc' = "done" /\ idx' = idx /\ outcome' = "success" /\ info' = info
            ELSE NextSession /\ outcome' = outcome /\ info' = EmptyInfo
  /\ UNCHANGED <<cfg, session_ids, now>>

\* The wait, without the sweep history.
Next ==
  \/ Timeout /\ UNCHANGED <<age, call, ret>>
  \/ Sleep /\ UNCHANGED <<age, call, ret>>
  \/ FetchStatus /\ UNCHANGED <<age, call, ret>>
  \/ Deleted /\ UNCHANGED <<age, call, ret>>
  \/ Process /\ UNCHANGED <<age, call, ret>>

Spec == Init /\ [][Next]_vars

\* The same wait, recording for every session how many sweeps have begun
\* since its last recorded snapshot.
NextSweeps ==
  \/ Timeout /\ UNCHANGED <<age, call, ret>>
  \/ Sleep /\ age' = [s \in DOMAIN age |-> IF age[s] < 2 THEN age[s] + 1 ELSE 2]
     /\ UNCHANGED <<call, ret>>
  \/ FetchStatus /\ UNCHANGED <<age, call, ret>>
  \/ Deleted /\ UNCHANGED <<age, call, ret>>
  \/ Process /\ age' = [age EXCEPT ![Sid] = 0] /\ UNCHANGED <<call, ret>>

SpecSweeps == Init /\ [][NextSweeps]_vars

\* The wait against a status source that answers every request with state
\* completed and no running or waiting run, and without the timeout being
\* reached.
CompletedInfo(sid) ==
  [session_status |-> "completed", name |-> ServerName(sid), running |-> 0, waiting |-> 0]

FetchCompleted ==
  /\ pc = "fetch"
  /\ \E d \in 0..MaxFetchDelay : Fetch([kind |-> "list", item |-> CompletedInfo(Sid)], d)

NextCompleted ==
  \/ Sleep /\ UNCHANGED <<age, call, ret>>
  \/ FetchCompleted /\ UNCHANGED <<age, call, ret>>
  \/ Process /\ UNCHANGED <<age, call, ret>>

SpecCompleted == Init /\ [][NextCompleted]_vars

\* The wait as a running process: sleep and the status request (which has a
\* connection and read timeout) return, and the loop takes its next step.
SpecLive == Init /\ [][Next]_vars /\ WF_vars(Next)

\* mutant: sessions that disagree are reported with the state of one of them
FinalStatus_NoMixed(agg) ==
  LET statuses == {agg[s].session_status : s \in DOMAIN agg}
  IN  IF statuses # {} THEN CHOOSE x \in statuses : TRUE ELSE "unknown"

\* main: the session-status output, from the snapshots the wait returned
FinalStatus(agg) ==
  LET statuses == {agg[s].session_status : s \in DOMAIN agg}
  IN  IF Cardinality(statuses) = 1 THEN CHOOSE x \in statuses : TRUE
      ELSE IF statuses # {} THEN "mixed"
      ELSE "unknown"

\* ---------------------------------------------------------- aggregation
\* A count field of a snapshot as json.loads delivers it: the key is missing,
\* or the value is an int, a string that int() parses (v is the number it
\* reads), any other string, null, or a float beyond the double range
\* (1e999 is read as inf).
CountValues ==
  { [t |-> k, v |-> 0] : k \in {"missing", "text", "null", "inf"} }
    \cup { [t |-> k, v |-> n] : k \in {"int", "str"}, n \in 0..MaxRunCount }

\* the six count keys get_aggregated_stats reads
CountKeys ==
  {"total_runs_in_session", "passed_runs", "failed_runs", "running", "waiting",
   "other_runs"}

\* a snapshot whose six counts are the int 1
OnesSnapshot == [k \in CountKeys |-> [t |-> "int", v |-> 1]]

\* the snapshots given to get_aggregated_stats: one count differs from 1
CountSnapshots ==
  { [OnesSnapshot EXCEPT ![k] = x] : k \in CountKeys, x \in CountValues }

\* aggregated.values(), in the iteration order of the dict
SnapshotLists == UNION { [1..n -> CountSnapshots] : n \in 0..MaxSnaps }

\* info.get(key, 0)
GetCount(i, key) == IF i[key].t = "missing" THEN [t |-> "int", v |-> 0] ELSE i[key]

\* _safe_int(v): int(v), with ValueError and TypeError turned into 0;
\* int(inf) raises OverflowError, which is not caught
_safe_int(x) ==
  CASE x.t = "int" -> [raises |-> "none", value |-> x.v]
    [] x.t = "str" -> [raises |-> "none", value |-> x.v]
    [] x.t = "text" -> [raises |-> "none", value |-> 0]
    [] x.t = "null" -> [raises |-> "none", value |-> 0]
    [] x.t = "inf" -> [raises |-> "OverflowError", value |-> 0]

ZeroTotals ==
  [total_runs |-> 0, passed |-> 0, failed |-> 0, running |-> 0, waiting |-> 0,
   other |-> 0]

\* the body of the for loop of get_aggregated_stats on one snapshot
AddSnapshot(totals, i) ==
  LET a == _safe_int(GetCount(i, "total_runs_in_session"))
      b == _safe_int(GetCount(i, "passed_runs"))
      c == _safe_int(GetCount(i, "failed_runs"))
      d == _safe_int(GetCount(i, "running"))
      e == _safe_int(GetCount(i, "waiting"))
      f == _safe_int(GetCount(i, "other_runs"))
  IN  IF \E r \in {a, b, c, d, e, f} : r.raises # "none"
      THEN [raises |-> "OverflowError", value |-> ZeroTotals]
      ELSE [raises |-> "none",
            value |-> [total_runs |-> totals.total_runs + a.value,
                       passed |-> totals.passed + b.value,
                       failed |-> totals.failed + c.value,
                       running |-> totals.running + d.value,
                       waiting |-> totals.waiting + e.value,
                       other |-> totals.other + f.value]]

\* mutant: each snapshot overwrites the totals
get_aggregated_stats_LastWins(snaps) ==
  LET loop[n \in 0..Len(snaps)] ==
        IF n = 0 THEN [raises |-> "none", value |-> ZeroTotals]
        ELSE IF loop[n - 1].raises # "none" THEN loop[n - 1]
        ELSE AddSnapshot(ZeroTotals, snaps[n])
  IN  loop[Len(snaps)]

\* get_aggregated_stats(aggregated): the totals, or the exception that ends it
get_aggregated_stats(snaps) ==
  LET loop[n \in 0..Len(snaps)] ==
        IF n = 0 THEN [raises |-> "none", value |-> ZeroTotals]
        ELSE IF loop[n - 1].raises # "none" THEN loop[n - 1]
        ELSE AddSnapshot(loop[n - 1].value, snaps[n])
  IN  loop[Len(snaps)]

AggregateCalls == [fn : {"get_aggregated_stats"}, snaps : SnapshotLists]

\* -------------------------------------------------------------- JUnit XML
\* A text is a sequence of pieces; the characters XML escapes are pieces of
\* their own, every other piece is free of them.
\* A field of a run as json.loads delivers it: the key is missing, or the
\* value is null, a string (s), an int (n), or a float read as inf.
Missing == [t |-> "missing", s |-> <<>>, n |-> 0]
Null == [t |-> "null", s |-> <<>>, n |-> 0]
StrV(text) == [t |-> "str", s |-> text, n |-> 0]
IntV(k) == [t |-> "int", s |-> <<>>, n |-> k]
InfV == [t |-> "inf", s |-> <<>>, n |-> 0]

\* run.get(key, default)
RunGet(run, key, default) == IF run[key].t = "missing" THEN default ELSE run[key]

\* str(v) for a value that is not None
Str(x) ==
  CASE x.t = "str" -> x.s
    [] x.t = "int" -> <<ToString(x.n)>>
    [] x.t = "inf" -> <<"inf">>

\* xml_escape(s, {'"': "&quot;", "'": "&apos;"}) on one piece
EscapePiece(ch) ==
  CASE ch = "&" -> "&amp;"
    [] ch = "<" -> "&lt;"
    [] ch = ">" -> "&gt;"
    [] ch = "\"" -> "&quot;"
    [] ch = "'" -> "&apos;"
    [] OTHER -> ch

_xml_safe(x) ==
  IF x.t = "null" THEN <<"NA">>
  ELSE [k \in 1..Len(Str(x)) |-> EscapePiece(Str(x)[k])]

\* int(duration), with ValueError and TypeError turned into 0 (the strings
\* given as duration are not numbers); int(inf) raises OverflowError
Duration(x) ==
  CASE x.t = "int" -> [raises |-> "none", value |-> x.n]
    [] x.t = "inf" -> [raises |-> "OverflowError", value |-> 0]
    [] OTHER -> [raises |-> "none", value |-> 0]

\* mutant: status other is a plain test case
Classify_OtherIsPlain(status) ==
  IF status = StrV(<<"failed">>) THEN "failure"
  ELSE IF status \in {StrV(<<"stopped">>), StrV(<<"running">>), StrV(<<"waiting">>)}
  THEN "skipped"
  ELSE "none"

\* the branch taken on status: the child element of the test case
Classify(status) ==
  IF status = StrV(<<"failed">>) THEN "failure"
  ELSE IF status \in {StrV(<<"stopped">>), StrV(<<"running">>), StrV(<<"other">>),
                      StrV(<<"waiting">>)}
  THEN "skipped"
  ELSE "none"

\* mutant: the seed suffix is always appended
full_name_AlwaysSeed(test_name, seed, no_append_seed) ==
  test_name \o <<" : Seed-">> \o seed

\* full_name, from the escaped test_name and seed
full_name(test_name, seed, no_append_seed) ==
  test_name \o (IF no_append_seed THEN <<>> ELSE <<" : Seed-">> \o seed)

DefaultDescription ==
  <<"Run is in state running, other or waiting. Reason for run to mark as failed is because session changed status.">>

\* the body of the for loop on one run, with extra_attrs empty: the test case
\* element appended to lines (attribute values and body as written)
TestCase(run, no_append_seed) ==
  LET status == RunGet(run, "status", StrV(<<"NA">>))
      test_group == _xml_safe(RunGet(run, "test_group", StrV(<<"NA">>)))
      test_name == _xml_safe(RunGet(run, "test_name", StrV(<<"NA">>)))
      seed == _xml_safe(RunGet(run, "computed_seed", StrV(<<"NA">>)))
      duration == Duration(RunGet(run, "duration", IntV(0)))
      error_name == _xml_safe(RunGet(run, "first_failure_name",
                                     StrV(<<"RUN_STILL_IN_PROGRESS">>)))
      error_desc == _xml_safe(RunGet(run, "first_failure_description",
                                     StrV(DefaultDescription)))
      child == Classify(status)
  IN  [raises |-> duration.raises,
       classname |-> test_group,
       name |-> full_name(test_name, seed, no_append_seed),
       time |-> duration.value,
       child |-> child,
       message |-> IF child = "failure" THEN error_name ELSE <<>>,
       type |-> IF child = "failure" THEN error_name ELSE <<>>,
       body |-> IF child = "failure"
                THEN <<"First Error Description: \n">> \o error_desc
                       \o <<"\nComputed Seed: \n">> \o seed \o <<"\n">>
                ELSE <<>>]

\* mutant: the test cases are written last run first
TestCases_Reversed(runs, no_append_seed) ==
  [k \in 1..Len(runs) |-> TestCase(runs[Len(runs) + 1 - k], no_append_seed)]

\* the test case elements of the for loop, in the order appended
TestCases(runs, no_append_seed) ==
  [k \in 1..Len(runs) |-> TestCase(runs[k], no_append_seed)]

\* no file at output_path
NoDocument == [tests |-> 0, name |-> "", cases |-> <<>>]

\* mutant: an empty run list gives a report without test cases
generate_junit_xml_WritesEmpty(runs, no_append_seed) ==
  LET cases == TestCases(runs, no_append_seed)
  IN  IF \E k \in 1..Len(cases) : cases[k].raises # "none"
      THEN [raises |-> "OverflowError", written |-> FALSE, doc |-> NoDocument]
      ELSE [raises |-> "none", written |-> TRUE,
            doc |-> [tests |-> Len(runs), name |-> "Verisium Manager", cases |-> cases]]

\* generate_junit_xml(runs, ..., no_append_seed) with extra_attrs empty: whether
\* it returns or raises, and the document written to output_path, if any
generate_junit_xml(runs, no_append_seed) ==
  LET cases == TestCases(runs, no_append_seed)
  IN  IF runs = <<>>
      THEN [raises |-> "none", written |-> FALSE, doc |-> NoDocument]
      ELSE IF \E k \in 1..Len(cases) : cases[k].raises # "none"
      THEN [raises |-> "OverflowError", written |-> FALSE, doc |-> NoDocument]
      ELSE [raises |-> "none", written |-> TRUE,
            doc |-> [tests |-> Len(runs), name |-> "Verisium Manager", cases |-> cases]]

\* a passed run with every field present
PassedRun ==
  [status |-> StrV(<<"passed">>), test_group |-> StrV(<<"grp">>),
   test_name |-> StrV(<<"test_a">>), computed_seed |-> StrV(<<"7">>),
   duration |-> IntV(10), first_failure_name |-> Missing,
   first_failure_description |-> Missing]

StatusValues ==
  {Missing, Null} \cup
  { StrV(<<st>>) : st \in {"passed", "failed", "stopped", "running", "other", "waiting",
                           "Failed"} }

NameValues == {Missing, Null, StrV(<<"test_a">>), StrV(<<"a", "<", "b", "&", "c">>)}

SeedValues == {Missing, Null, StrV(<<"7">>), IntV(42)}

FailureNameValues == {Missing, Null, StrV(<<"ASSERT">>), StrV(<<"x", "\"", "y", "'", ">">>)}

DurationValues == {Missing, Null, IntV(10), StrV(<<"n/a">>), InfV}

\* runs given one at a time
Runs ==
  { [PassedRun EXCEPT !["status"] = st, !["first_failure_name"] = f,
                      !["computed_seed"] = sd] :
      st \in StatusValues, f \in FailureNameValues, sd \in SeedValues }
    \cup { [PassedRun EXCEPT !["status"] = st, !["test_name"] = nm,
                             !["computed_seed"] = sd] :
             st \in {StrV(<<"passed">>), StrV(<<"failed">>), StrV(<<"running">>)},
             nm \in NameValues, sd \in SeedValues }
    \cup { [PassedRun EXCEPT !["status"] = st, !["duration"] = d,
                             !["first_failure_description"] = ds,
                             !["test_group"] = g] :
             st \in {StrV(<<"passed">>), StrV(<<"failed">>)}, d \in DurationValues,
             ds \in {Missing, StrV(<<"boom", "<", "1">>)}, g \in {Missing, StrV(<<"grp">>)} }

\* runs given in lists: one of each status, named after it, and a run whose
\* duration is infinite
ListRuns ==
  { [PassedRun EXCEPT !["status"] = StrV(<<st>>), !["test_name"] = StrV(<<"t_", st>>)] :
      st \in {"passed", "stopped", "running", "other", "waiting"} }
    \cup { [PassedRun EXCEPT !["status"] = StrV(<<"failed">>),
                             !["test_name"] = StrV(<<"t_", "failed">>),
                             !["first_failure_name"] = StrV(<<"ASSERT">>),
                             !["computed_seed"] = StrV(<<"42">>)],
           [PassedRun EXCEPT !["status"] = Missing, !["test_name"] = StrV(<<"t_", "NA">>)],
           [PassedRun EXCEPT !["duration"] = InfV] }

RunLists ==
  UNION { [1..n -> Runs] : n \in 0..1 } \cup UNION { [1..n -> ListRuns] : n \in 2..MaxRuns }

JunitCalls == [fn : {"generate_junit_xml"}, runs : RunLists, no_append_seed : BOOLEAN]

\* ------------------------------------------------------------------ main
\* mutant: the two conditions are evaluated without looking at total_runs
FailConditions_AlsoZeroRuns(fail_if_all_failed, fail_unless_all_passed, stats) ==
  IF fail_if_all_failed /\ stats.total_runs = stats.failed
  THEN "All runs failed in the regression."
  ELSE IF fail_unless_all_passed /\ stats.total_runs # stats.passed
  THEN "Not all runs passed the regression."
  ELSE ""

\* 'Check fail conditions' of main: the message of the fail() that ends the
\* process there, or "" when neither condition does
FailConditions(fail_if_all_failed, fail_unless_all_passed, stats) ==
  IF fail_if_all_failed /\ stats.total_runs > 0 /\ stats.total_runs = stats.failed
  THEN "All runs failed in the regression."
  ELSE IF fail_unless_all_passed /\ stats.total_runs > 0
          /\ stats.total_runs # stats.passed
  THEN "Not all runs passed the regression."
  ELSE ""

\* main from 'Check fail conditions' to the end of the wait branch, with
\* generate_junit off: the message of the fail() it exits through, if any
MainAfterWait(success, fail_if_all_failed, fail_unless_all_passed, stats) ==
  LET m == FailConditions(fail_if_all_failed, fail_unless_all_passed, stats)
  IN  IF m # "" THEN m
      ELSE IF ~success THEN "One or more sessions ended in a failure state."
      ELSE ""

\* totals that get_aggregated_stats can return for MaxSnaps snapshots
StatsValues ==
  [total_runs : 0..(MaxSnaps * MaxRunCount), passed : 0..(MaxSnaps * MaxRunCount),
   failed : 0..(MaxSnaps * MaxRunCount)]

MainCalls ==
  [fn : {"main"}, success : BOOLEAN, fail_if_all_failed : BOOLEAN,
   fail_unless_all_passed : BOOLEAN, stats : StatsValues]

\* ------------------------------------------------------ function calls
\* The functions of the program that do not depend on the wait are followed
\* one call at a time: call holds the function and its arguments, the one
\* step of the call sets ret.

\* what INPUT_*_RESOLVER can hold: the three actions, or any other text
ResolverValues == Actions \cup {"abort"}

\* every configuration of the five resolvers
ResolverConfigs ==
  [session_timeout : {0},
   poll_interval : {1},
   inaccessible_resolver : ResolverValues,
   stopped_resolver : ResolverValues,
   failed_resolver : ResolverValues,
   done_resolver : ResolverValues,
   suspended_resolver : ResolverValues]

\* state strings: the six with an entry, and strings without one
StateStrings ==
  {"inaccessible", "stopped", "failed", "done", "suspended", "completed",
   "unknown", "launching", "waiting", "running", "Failed", ""}

ResolverCalls == [fn : {"_get_resolver"}, c : ResolverConfigs, state : StateStrings]

Calls == ResolverCalls \cup AggregateCalls \cup JunitCalls \cup MainCalls

\* the wait is not running while a call is followed
InitCalls ==
  /\ cfg = CHOOSE c \in Configs : TRUE
  /\ session_ids = <<>>
  /\ remaining = <<>>
  /\ session_names = EmptyDict
  /\ completed_last_check = EmptyDict
  /\ final_state = EmptyDict
  /\ aggregated = EmptyDict
  /\ now = 0
  /\ pc = "call"
  /\ idx = 0
  /\ info = EmptyInfo
  /\ outcome = "none"
  /\ age = EmptyDict
  /\ call \in Calls
  /\ ret = NoCall

\* the step of a call: it returns
Return(r) ==
  /\ pc = "call"
  /\ pc' = "return"
  /\ ret' = r
  /\ UNCHANGED <<cfg, session_ids, remaining, session_names, completed_last_check,
                 final_state, aggregated, now, idx, info, outcome, age, call>>

CallResolver ==
  /\ call.fn = "_get_resolver"
  /\ Return([fn |-> call.fn, raises |-> "none",
             value |-> _get_resolver(call.c, call.state)])

CallAggregate ==
  /\ call.fn = "get_aggregated_stats"
  /\ LET r == get_aggregated_stats(call.snaps)
     IN  Return([fn |-> call.fn, raises |-> r.raises, value |-> r.value])

CallJunit ==
  /\ call.fn = "generate_junit_xml"
  /\ LET r == generate_junit_xml(call.runs, call.no_append_seed)
     IN  Return([fn |-> call.fn, raises |-> r.raises, written |-> r.written,
                 doc |-> r.doc])

\* fail() is sys.exit(1)
CallMain ==
  /\ call.fn = "main"
  /\ LET m == MainAfterWait(call.success, call.fail_if_all_failed,
                            call.fail_unless_all_passed, call.stats)
     IN  Return([fn |-> call.fn, raises |-> IF m = "" THEN "none" ELSE "SystemExit",
                 message |-> m])

NextCalls ==
  \/ CallResolver
  \/ CallAggregate
  \/ CallJunit
  \/ CallMain

SpecCalls == InitCalls /\ [][NextCalls]_vars

TypeOK ==
  /\ cfg \in Configs
  /\ pc \in {"check", "fetch", "process", "done"}
  /\ outcome \in {"none", "success", "failure", "timeout"}
  /\ now \in 0..Horizon
  /\ idx \in 0..Len(session_ids)
  /\ Range(remaining) \subseteq Range(session_ids)
  /\ DOMAIN aggregated \subseteq Range(session_ids)
  /\ DOMAIN final_state = DOMAIN completed_last_check

\* ================================================================ claims
Tracked == Range(session_ids)
Zero(i) == i.running = 0 /\ i.waiting = 0

\* the step processes a non-empty snapshot of session s
Observing(s) == pc = "process" /\ info # EmptyInfo /\ Sid = s

\* the snapshot recorded before: the session's preceding observation
PrevZero(s) == s \in DOMAIN aggregated /\ Zero(aggregated[s])

\* C1: an observation of a session confirms it (final_state true) exactly
\* when this observation and the session's preceding observation are both
\* zero/zero; a first zero/zero observation, or one after a non-zero
\* observation, leaves the session unconfirmed.
C1_ConfirmIffTwoZero ==
  [][\A s \in Tracked :
       Observing(s) =>
         /\ s \in DOMAIN final_state'
         /\ final_state'[s] <=> (Zero(info) /\ PrevZero(s))]_vars

\* a session is confirmed after two consecutive zero/zero observations
C1_Witness ==
  \E s \in Tracked : Get(final_state, s) /\ PrevZero(s)

\* C2: when wait returns success, every tracked session is confirmed and no
\* recorded snapshot has a state that resolves to fail.
C2_SuccessAllConfirmed ==
  outcome = "success" =>
    /\ \A s \in Tracked : Get(final_state, s)
    /\ \A s \in DOMAIN aggregated :
         _get_resolver(cfg, aggregated[s].session_status) # "fail"

\* C3: a processed snapshot whose state resolves to fail halts the wait in
\* that step with success=false.
C3_FailHalts ==
  [][(pc = "process" /\ info # EmptyInfo
        /\ _get_resolver(cfg, info.session_status) = "fail")
       => (pc' = "done" /\ outcome' = "failure")]_vars

\* the observed state is completed or resolves to continue
Continuable == info.session_status = "completed"
                 \/ _get_resolver(cfg, info.session_status) = "continue"

C5_ConfirmOnlyAfterPrecedingSweep ==
  [][\A s \in Tracked :
       (~Get(final_state, s) /\ Get(final_state', s)) =>
         (Observing(s) /\ Zero(info) /\ PrevZero(s) /\ age[s] = 1)]_vars

\* C5 amended: a session becomes confirmed only when it is observed
\* zero/zero and its most recent recorded observation, made in an earlier
\* sweep (not necessarily the one immediately before), was zero/zero.
C5_ConfirmOnlyAfterEarlierSweep ==
  [][\A s \in Tracked :
       (~Get(final_state, s) /\ Get(final_state', s)) =>
         (Observing(s) /\ Zero(info) /\ PrevZero(s) /\ age[s] >= 1)]_vars

\* a session has just been confirmed in the current sweep
C5_Witness ==
  \E s \in Tracked : Get(final_state, s) /\ age[s] = 0 /\ PrevZero(s)

\* C6: an empty snapshot is handed to the loop body unchanged, and the loop
\* body halts on it with success=false without touching the tracker flags.
C6_EmptyHalts ==
  [][/\ \A k \in {"empty_list", "not_list"}, d \in 0..MaxFetchDelay :
          Fetch([kind |-> k, item |-> EmptyInfo], d)
            => (pc' = "process" /\ info' = EmptyInfo)
     /\ (pc = "process" /\ info = EmptyInfo)
          => /\ pc' = "done" /\ outcome' = "failure"
             /\ UNCHANGED <<completed_last_check, final_state, remaining>>]_vars

\* the wait failed on a deleted session while another session was confirmed
C6_Witness ==
  /\ outcome = "failure"
  /\ pc = "done"
  /\ info = EmptyInfo
  /\ \E s \in Tracked : Get(final_state, s)

\* C7: a transport / connectivity failure of a fetch ends the sweep: the
\* next step of the wait is the timeout check of the next poll cycle.
C7_ConnectivityAbandonsSweep ==
  [][\A k \in {"URLError", "OtherError"}, d \in 0..MaxFetchDelay :
       Fetch([kind |-> k, item |-> EmptyInfo], d) => (pc' = "check" /\ idx' = 0)]_vars

\* C8: a fetch that raises does not halt the wait and changes neither the
\* tracker flags, nor the snapshots, nor the names, nor the pending list.
C8_FailedFetchFrame ==
  [][\A k \in {"HTTPError", "URLError", "OtherError"}, d \in 0..MaxFetchDelay :
       Fetch([kind |-> k, item |-> EmptyInfo], d) =>
         /\ pc' \in {"fetch", "check"}
         /\ outcome' = outcome
         /\ UNCHANGED <<completed_last_check, final_state, aggregated,
                        session_names, remaining>>]_vars

\* a sweep went on after a failed fetch of the first session: the second
\* session is recorded, the first is not
C8_Witness ==
  /\ Len(session_ids) = 2
  /\ 2 \in DOMAIN aggregated
  /\ 1 \notin DOMAIN aggregated
  /\ outcome = "none"

\* C9: the wait times out exactly at a top-of-loop check with
\* session_timeout > 0 and elapsed > session_timeout; a check that passes
\* starts the sweep, and no step of a sweep times out.
C9_TimeoutExactly ==
  [][/\ pc = "check" =>
          IF cfg.session_timeout > 0 /\ now > cfg.session_timeout
          THEN pc' = "done" /\ outcome' = "timeout"
          ELSE pc' = "fetch" /\ outcome' = "none"
     /\ pc # "check" => outcome' # "timeout"]_vars

\* a sweep decided although the timeout had been exceeded since its check
C9_Witness ==
  /\ outcome \in {"success", "failure"}
  /\ cfg.session_timeout > 0
  /\ now > cfg.session_timeout

\* C10: the wait halts with a failure only on an empty snapshot, on a
\* snapshot whose state resolves to fail, or at the timeout check.
C10_FailureCauses ==
  [][(outcome = "none" /\ outcome' \in {"failure", "timeout"}) =>
       \/ pc = "process" /\ info = EmptyInfo /\ outcome' = "failure"
       \/ /\ pc = "process" /\ info # EmptyInfo /\ outcome' = "failure"
          /\ _get_resolver(cfg, info.session_status) = "fail"
       \/ /\ pc = "check" /\ outcome' = "timeout"
          /\ cfg.session_timeout > 0 /\ now > cfg.session_timeout]_vars

\* the wait failed on a snapshot whose state resolves to fail
C10_Witness ==
  /\ outcome = "failure"
  /\ info # EmptyInfo
  /\ _get_resolver(cfg, info.session_status) = "fail"

\* the snapshot being processed resolves to the action ignore
Ignoring == pc = "process" /\ info # EmptyInfo /\ _get_resolver(cfg, info.session_status) = "ignore"

\* C11 (as stated): a processed snapshot whose state resolves to ignore never
\* halts the wait in that step, neither with success nor with failure, and
\* the sweep proceeds, for every state resolving to ignore, failed included.
C11_IgnoreNeverHalts ==
  [][Ignoring => (pc' # "done" /\ outcome' = outcome)]_vars

\* C11 (amended): a processed snapshot whose state resolves to ignore never
\* halts the wait in that step and the for loop moves to the next session
\* (or the sweep ends), unless the state is failed and the snapshot is the
\* second consecutive zero/zero observation of that session (the special
\* case for failed, which may return success).
C11_IgnoreNeverHaltsButFailedConfirmed ==
  [][(Ignoring /\ ~(info.session_status = "failed" /\ Zero(info) /\ PrevZero(Sid)))
       => /\ outcome' = "none"
          /\ IF idx < Len(session_ids)
             THEN pc' = "fetch" /\ idx' = idx + 1
             ELSE pc' = "check" /\ idx' = 0]_vars

\* a session confirmed zero/zero in a state resolving to ignore has been
\* processed, and the wait goes on
C11_Witness ==
  /\ pc \in {"check", "fetch"}
  /\ outcome = "none"
  /\ \E s \in DOMAIN aggregated :
       /\ _get_resolver(cfg, aggregated[s].session_status) = "ignore"
       /\ aggregated[s].session_status \in {"failed", "done"}
       /\ s \in DOMAIN final_state /\ final_state[s]

\* wait() has returned to main (it did not exit through the timeout)
Returned == pc = "done" /\ outcome \in {"success", "failure"}

\* C19: after a wait that returned, the session-status output is the single
\* state when all recorded snapshots carry the same state, "mixed" when two
\* recorded snapshots carry different states, and "unknown" when no snapshot
\* was recorded.
C19_OverallStatus ==
  Returned =>
    /\ DOMAIN aggregated = {} => FinalStatus(aggregated) = "unknown"
    /\ \A s \in DOMAIN aggregated :
         IF \A t \in DOMAIN aggregated :
              aggregated[t].session_status = aggregated[s].session_status
         THEN FinalStatus(aggregated) = aggregated[s].session_status
         ELSE FinalStatus(aggregated) = "mixed"

\* the wait returned with two recorded snapshots that disagree
C19_Witness ==
  /\ Returned
  /\ \E s, t \in DOMAIN aggregated :
       aggregated[s].session_status # aggregated[t].session_status

\* the call of function f has returned or raised
Called(f) == pc = "return" /\ call.fn = f

\* C12: _get_resolver never fails; for inaccessible, stopped, failed, done
\* and suspended it returns the configured action of that state, for
\* completed it returns continue whatever the configuration, for every other
\* state string it returns ignore; when the five configured values are
\* actions the result is an action.
C12_ResolverTotal ==
  Called("_get_resolver") =>
    /\ ret.raises = "none"
    /\ call.state = "inaccessible" => ret.value = call.c.inaccessible_resolver
    /\ call.state = "stopped" => ret.value = call.c.stopped_resolver
    /\ call.state = "failed" => ret.value = call.c.failed_resolver
    /\ call.state = "done" => ret.value = call.c.done_resolver
    /\ call.state = "suspended" => ret.value = call.c.suspended_resolver
    /\ call.state = "completed" => ret.value = "continue"
    /\ call.state \notin {"inaccessible", "stopped", "failed", "done", "suspended",
                           "completed"} => ret.value = "ignore"
    /\ {call.c.inaccessible_resolver, call.c.stopped_resolver, call.c.failed_resolver,
        call.c.done_resolver, call.c.suspended_resolver} \subseteq Actions
         => ret.value \in Actions

\* an unrecognised state string was resolved under a configuration that sets
\* every state to fail
C12_Witness ==
  /\ Called("_get_resolver")
  /\ call.state = "launching"
  /\ call.c.done_resolver = "fail" /\ call.c.suspended_resolver = "fail"
  /\ call.c.failed_resolver = "fail" /\ call.c.stopped_resolver = "fail"
  /\ call.c.inaccessible_resolver = "fail"
  /\ ret.value = "ignore"

\* the list snaps in the order given by the permutation p of its indices
Permuted(snaps, p) == [n \in 1..Len(snaps) |-> snaps[p[n]]]

\* C13: get_aggregated_stats gives the same six totals for every permutation
\* of the snapshots it is given.
C13_OrderIndependent ==
  Called("get_aggregated_stats") =>
    \A p \in Permutations(1..Len(call.snaps)) :
      LET r == get_aggregated_stats(Permuted(call.snaps, p))
      IN  r.raises = ret.raises /\ r.value = ret.value

\* three snapshots with different total_runs_in_session were aggregated
C13_Witness ==
  /\ Called("get_aggregated_stats")
  /\ Len(call.snaps) = 3
  /\ call.snaps[1]["total_runs_in_session"] = [t |-> "int", v |-> 0]
  /\ call.snaps[2]["total_runs_in_session"] = [t |-> "str", v |-> 1]
  /\ call.snaps[3]["total_runs_in_session"] = [t |-> "text", v |-> 0]
  /\ ret.raises = "none"
  /\ ret.value.total_runs = 1

\* what a count field contributes to its total: its number when it is
\* numeric, 0 when it is missing or not numeric
Contribution(x) == IF x.t \in {"int", "str"} THEN x.v ELSE 0

\* the sum of the contributions of the field key over the list snaps
SumOf(snaps, key) ==
  LET sum[n \in 0..Len(snaps)] ==
        IF n = 0 THEN 0 ELSE sum[n - 1] + Contribution(snaps[n][key])
  IN  sum[Len(snaps)]

\* C14: get_aggregated_stats never fails and returns, for each of the six
\* totals, the sum over the snapshots of the corresponding field, a missing
\* or non-numeric value contributing 0; no snapshot gives all zeros.
C14_SumsNeverFails ==
  Called("get_aggregated_stats") =>
    /\ ret.raises = "none"
    /\ ret.value.total_runs = SumOf(call.snaps, "total_runs_in_session")
    /\ ret.value.passed = SumOf(call.snaps, "passed_runs")
    /\ ret.value.failed = SumOf(call.snaps, "failed_runs")
    /\ ret.value.running = SumOf(call.snaps, "running")
    /\ ret.value.waiting = SumOf(call.snaps, "waiting")
    /\ ret.value.other = SumOf(call.snaps, "other_runs")
    /\ call.snaps = <<>> => ret.value = ZeroTotals

\* generate_junit_xml has written a report
Written == Called("generate_junit_xml") /\ ret.written

\* the text an XML reader gets from a written attribute value or body
UnescapePiece(ch) ==
  CASE ch = "&amp;" -> "&"
    [] ch = "&lt;" -> "<"
    [] ch = "&gt;" -> ">"
    [] ch = "&quot;" -> "\""
    [] ch = "&apos;" -> "'"
    [] OTHER -> ch

Unescaped(text) == [k \in 1..Len(text) |-> UnescapePiece(text[k])]

IsStatus(run, names) == run.status.t = "str" /\ \E st \in names : run.status.s = <<st>>

SkippedStatuses == {"stopped", "running", "other", "waiting"}

ExampleRuns ==
  << [PassedRun EXCEPT !["test_name"] = StrV(<<"t_", "passed">>)],
     [PassedRun EXCEPT !["status"] = StrV(<<"failed">>),
                       !["test_name"] = StrV(<<"t_", "failed">>),
                       !["first_failure_name"] = StrV(<<"ASSERT">>),
                       !["computed_seed"] = StrV(<<"42">>)],
     [PassedRun EXCEPT !["status"] = StrV(<<"running">>),
                       !["test_name"] = StrV(<<"t_", "running">>)] >>

\* C16: a written report has a tests attribute equal to the number of runs
\* and one test case per run, in input order (the k-th test case carries the
\* name of the k-th run); as many failure entries as runs with status failed
\* and as many skipped entries as runs with status stopped, running, other or
\* waiting; for the three example runs: tests = 3, one failure entry, which
\* contains 42, and one skipped entry.
C16_OneCasePerRun ==
  Written =>
    LET runs == call.runs
        cases == ret.doc.cases
        With(kind) == {k \in 1..Len(cases) : cases[k].child = kind}
    IN  /\ ret.doc.tests = Len(runs)
        /\ Len(cases) = Len(runs)
        /\ \A k \in 1..Len(runs) :
             runs[k].test_name.t = "str" =>
               SubSeq(Unescaped(cases[k].name), 1, Len(runs[k].test_name.s))
                 = runs[k].test_name.s
        /\ Cardinality(With("failure"))
             = Cardinality({k \in 1..Len(runs) : IsStatus(runs[k], {"failed"})})
        /\ Cardinality(With("skipped"))
             = Cardinality({k \in 1..Len(runs) : IsStatus(runs[k], SkippedStatuses)})
        /\ runs = ExampleRuns =>
             /\ ret.doc.tests = 3
             /\ With("failure") = {2}
             /\ \E j \in 1..Len(cases[2].body) : cases[2].body[j] = "42"
             /\ With("skipped") = {3}

\* the report of the three example runs was written
C16_Witness ==
  /\ Written
  /\ call.runs = ExampleRuns
  /\ ret.doc.tests = 3

\* the text of a seed that is a string or an int
SeedText(x) == IF x.t = "str" THEN x.s ELSE <<ToString(x.n)>>

\* C17: in a written report the name of the test case of every run, whatever
\* its status, is test_name followed by " : Seed-<computed_seed>" when
\* no_append_seed is false, and exactly test_name when it is true.
C17_SeedSuffix ==
  Written =>
    \A k \in 1..Len(call.runs) :
      LET run == call.runs[k]
          name == Unescaped(ret.doc.cases[k].name)
      IN  run.test_name.t = "str" =>
            /\ call.no_append_seed => name = run.test_name.s
            /\ (~call.no_append_seed /\ run.computed_seed.t \in {"str", "int"}) =>
                 name = run.test_name.s \o <<" : Seed-">> \o SeedText(run.computed_seed)

\* the failed run test_a with seed 7 was reported under "test_a : Seed-7"
C17_Witness ==
  /\ Written
  /\ ~call.no_append_seed
  /\ Len(call.runs) = 1
  /\ IsStatus(call.runs[1], {"failed"})
  /\ call.runs[1].test_name = StrV(<<"test_a">>)
  /\ call.runs[1].computed_seed = StrV(<<"7">>)
  /\ ret.doc.cases[1].name = <<"test_a", " : Seed-", "7">>

\* C18: generate_junit_xml called with an empty run collection writes no
\* document and returns normally.
C18_EmptyWritesNothing ==
  (Called("generate_junit_xml") /\ call.runs = <<>>) =>
    ret.raises = "none" /\ ~ret.written /\ ret.doc = NoDocument

\* generate_junit_xml was called with no run and has returned
C18_Witness ==
  /\ Called("generate_junit_xml")
  /\ call.runs = <<>>
  /\ ret.fn = "generate_junit_xml"
  /\ ~ret.written

\* main has exited through one of the two all-or-nothing fail conditions
AllFailedExit == ret.message = "All runs failed in the regression."
NotAllPassedExit == ret.message = "Not all runs passed the regression."

\* C20: with total_runs = 0 neither fail condition ends the process; with
\* total_runs > 0, 'fail if all runs failed' ends it exactly when its toggle
\* is on and failed = total_runs, and 'fail unless all runs passed' ends it
\* exactly when its toggle is on and passed # total_runs (after the first
\* condition, when that one has not ended the process already).
C20_FailConditionsNeedRuns ==
  Called("main") =>
    LET st == call.stats
    IN  /\ st.total_runs = 0 => ~AllFailedExit /\ ~NotAllPassedExit
        /\ st.total_runs > 0 =>
             /\ AllFailedExit <=>
                  (call.fail_if_all_failed /\ st.failed = st.total_runs)
             /\ (NotAllPassedExit \/ AllFailedExit) <=>
                  \/ call.fail_if_all_failed /\ st.failed = st.total_runs
                  \/ call.fail_unless_all_passed /\ st.passed # st.total_runs
        /\ (AllFailedExit \/ NotAllPassedExit) => ret.raises = "SystemExit"

\* both toggles on, a successful wait, no run at all: main did not fail
C20_Witness ==
  /\ Called("main")
  /\ call.fail_if_all_failed /\ call.fail_unless_all_passed
  /\ call.success
  /\ call.stats = [total_runs |-> 0, passed |-> 0, failed |-> 0]
  /\ ret.raises = "none"

\* C21: a session id leaves the pending list only in a step in which its
\* confirmed-done flag is true; a session whose flag is false or unset is
\* never removed.
C21_RemovedOnlyWhenConfirmed ==
  [][\A s \in Range(remaining) :
       s \notin Range(remaining') => Get(final_state', s)]_vars

\* a session has left the pending list while another is still pending
C21_Witness ==
  /\ Len(remaining) = 1
  /\ Len(session_ids) = 2
  /\ \E s \in Tracked : s \notin Range(remaining) /\ Get(final_state, s)

\* C22: with failed resolving to continue or ignore, when a session in state
\* failed is observed zero/zero for the second consecutive time and every
\* other tracked session has left the pending list, the wait halts in that
\* step with success.
C22_ConfirmedFailedSucceeds ==
  [][\A s \in Tracked :
       ( /\ Observing(s)
         /\ info.session_status = "failed"
         /\ cfg.failed_resolver \in {"continue", "ignore"}
         /\ Zero(info) /\ PrevZero(s)
         /\ Range(remaining) \subseteq {s} )
       => (pc' = "done" /\ outcome' = "success")]_vars

\* the wait returned success on a confirmed failed session while failed
\* resolves to ignore
C22_Witness ==
  /\ Returned
  /\ outcome = "success"
  /\ cfg.failed_resolver = "ignore"
  /\ info.session_status = "failed"
  /\ Len(session_ids) = 2

\* C23: within a sweep the sessions are fetched and processed one at a time
\* in the order of the session id list, which never changes: a sweep starts
\* at the first id, each next fetch is for the next id, the session recorded
\* and fed to its tracker is the one just fetched, and the sweep goes on to
\* the end of the list when no decision is taken; a step that takes a halting
\* decision ends the wait, and nothing is fetched, recorded or fed to a
\* tracker after it.
C23_OrderedShortCircuit ==
  [][/\ session_ids' = session_ids
     /\ pc # "done"
     /\ pc' = "fetch" =>
          \/ pc = "check" /\ idx' = 1
          \/ pc \in {"fetch", "process"} /\ idx' = idx + 1 /\ idx' <= Len(session_ids)
     /\ pc' = "process" => (pc = "fetch" /\ idx' = idx)
     /\ (pc = "process" /\ pc' = "check") => idx = Len(session_ids)
     /\ <<aggregated, completed_last_check, final_state, remaining>>
          # <<aggregated', completed_last_check', final_state', remaining'>>
          => /\ pc = "process"
             /\ \A s \in Tracked \ {session_ids[idx]} :
                  /\ (s \in DOMAIN aggregated') = (s \in DOMAIN aggregated)
                  /\ s \in DOMAIN aggregated => aggregated'[s] = aggregated[s]
                  /\ Get(final_state', s) = Get(final_state, s)
                  /\ Get(completed_last_check', s) = Get(completed_last_check, s)
     /\ outcome' # outcome => pc' = "done"]_vars

\* the first session of two yielded a failure and the second was never
\* recorded
C23_Witness ==
  /\ Returned
  /\ outcome = "failure"
  /\ Len(session_ids) = 2
  /\ idx = 1
  /\ info # EmptyInfo
  /\ DOMAIN aggregated = {1}

\* C24: with session_timeout > 0 and the clock advancing by the poll
\* interval (at least one unit) in every iteration, the wait eventually
\* halts, whatever the status source answers.
C24_EventuallyHalts == (cfg.session_timeout > 0) ~> (pc = "done")

\* the wait ran into the timeout without ever recording a snapshot
C24_Witness ==
  /\ pc = "done"
  /\ outcome = "timeout"
  /\ cfg.session_timeout > 0
  /\ aggregated = EmptyDict
  /\ Len(session_ids) = 2

\* C25: when every session reports completed with running = 0 and
\* waiting = 0 on every poll, every fetch succeeds and no timeout occurs,
\* the wait does not return in the first sweep (the one in which a session
\* is observed for the first time) and returns success in the second sweep,
\* on its last session.
C25_SuccessInSecondSweep ==
  [][\A s \in Tracked :
       Observing(s) =>
         IF s \notin DOMAIN aggregated
         THEN pc' # "done"
         ELSE IF idx = Len(session_ids)
         THEN pc' = "done" /\ outcome' = "success"
         ELSE pc' # "done"]_vars

\* two sessions that were always completed: the wait returned success
C25_Witness ==
  /\ Returned
  /\ outcome = "success"
  /\ Len(session_ids) = 2
  /\ remaining = <<>>
  /\ \A s \in Tracked : s \in DOMAIN aggregated /\ aggregated[s] = CompletedInfo(s)

\* C26: the keys of the snapshot map are tracked session ids; processing a
\* non-empty snapshot of a session (a snapshot of that session, as fetched)
\* makes it the entry of that session and leaves the other entries alone;
\* no other step (failed fetch, empty snapshot, cut-short sweep, timeout)
\* removes or alters an entry. So every entry is the latest non-empty
\* snapshot fetched for its session.
C26_LatestSnapshots ==
  [][/\ DOMAIN aggregated' \subseteq Range(session_ids')
     /\ pc' = "process" => info' \in Infos(session_ids[idx']) \cup {EmptyInfo}
     /\ IF pc = "process" /\ info # EmptyInfo
        THEN /\ DOMAIN aggregated' = DOMAIN aggregated \cup {session_ids[idx]}
             /\ aggregated'[session_ids[idx]] = info
             /\ \A s \in DOMAIN aggregated \ {session_ids[idx]} :
                  aggregated'[s] = aggregated[s]
        ELSE aggregated' = aggregated]_vars

\* a session recorded in an earlier sweep was then found deleted: its entry
\* is still the recorded snapshot
C26_Witness ==
  /\ Returned
  /\ outcome = "failure"
  /\ info = EmptyInfo
  /\ session_ids[idx] \in DOMAIN aggregated
  /\ aggregated[session_ids[idx]].session_status = "running"

\* C27: in every reachable state of the wait, a session whose confirmed-done
\* flag is true has its provisional flag true as well.
C27_ConfirmedImpliesProvisional ==
  \A s \in Tracked : Get(final_state, s) => Get(completed_last_check, s)

\* one of two sessions is confirmed, the other has run again after a
\* provisional zero/zero observation
C27_Witness ==
  /\ Len(session_ids) = 2
  /\ \E s, t \in Tracked :
       /\ Get(final_state, s) /\ Get(completed_last_check, s)
       /\ t \in DOMAIN final_state /\ ~final_state[t] /\ ~completed_last_check[t]
       /\ ~Zero(aggregated[t])

\* C28: the pending list holds tracked session ids only and never grows: an
\* id that has left it is never put back, not even when a later observation
\* resets the flags of that session; the tracked id list never changes.
C28_PendingOnlyShrinks ==
  [][/\ Range(remaining') \subseteq Range(remaining)
     /\ Range(remaining) \subseteq Range(session_ids)
     /\ session_ids' = session_ids]_vars

\* a session that left the pending list runs again: its flags are reset and
\* it stays off the list
C28_Witness ==
  \E s \in Tracked :
    /\ s \notin Range(remaining)
    /\ s \in DOMAIN final_state /\ ~final_state[s]
    /\ ~Zero(aggregated[s])
    /\ outcome = "none"

\* C29: with session_timeout = 0 the wait halts only in a step that processes
\* an empty snapshot, or a snapshot whose state does not resolve to ignore or
\* is failed; so while every fetch succeeds with a non-empty snapshot in a
\* state that resolves to ignore and is not failed, the wait never halts,
\* however long its sessions have been confirmed zero/zero.
C29_IgnoredForeverNeverHalts ==
  [][(cfg.session_timeout = 0 /\ pc' = "done") =>
       /\ pc = "process"
       /\ \/ info = EmptyInfo
          \/ _get_resolver(cfg, info.session_status) # "ignore"
          \/ info.session_status = "failed"]_vars

\* without a time limit, long after the start, every session is confirmed
\* zero/zero in a state that resolves to ignore and is still pending
C29_Witness ==
  /\ cfg.session_timeout = 0
  /\ now = Horizon
  /\ pc = "check"
  /\ outcome = "none"
  /\ Len(session_ids) = 2
  /\ remaining = session_ids
  /\ \A s \in Tracked :
       /\ Get(final_state, s)
       /\ s \in DOMAIN aggregated
       /\ aggregated[s].session_status \in {"done", "running"}
       /\ _get_resolver(cfg, aggregated[s].session_status) = "ignore"

====
